---- MODULE Spec2Model ----
(***************************************************************************)
(* Model of the SMTP client of package smtp (smtp.go).                     *)
(*                                                                         *)
(* A Client keeps one field, client, that is either nil or the handle of   *)
(* a session negotiated by Connect.  Connect, EnsureConnected, Send and    *)
(* Close are the four methods; each is one action that runs the whole      *)
(* method against the answers the server gives to that call.  The          *)
(* commands the method hands to net/smtp are recorded, in order, in wire.  *)
(***************************************************************************)
EXTENDS Integers, Sequences, FiniteSets, TLC

VARIABLES
    client,     \* Client.client: 0 is nil, otherwise the id of the session
    auth,       \* Client.auth # nil
    sessions,   \* every session a dial of this Client opened, by id
    wire,       \* the steps the last call issued, in order
    call,       \* the last call: method, arguments, handle before, error
    prev,       \* for two EnsureConnected calls in a row: what the first did
    threads,    \* two goroutines inside EnsureConnected, statement by statement
    stored,     \* the goroutines that assigned c.client, in the order they did
    emails,     \* the Email e and its twin, once NewEmail constructed them
    attached,   \* the Attach calls each Email received, in order
    built,      \* what the last two Build calls returned
    opts        \* Client.opts: the Login and Password given to NewClient

vars == <<opts, client, auth, sessions, wire, call, prev, threads, stored, emails, attached, built>>

(***************************************************************************)
(* Bounds.                                                                 *)
(***************************************************************************)
MaxSessions == 2    \* dials one Client performs
MaxRcpt == 2        \* recipients of one Send

(***************************************************************************)
(* Addresses are strings, modelled as sequences of one-character strings.  *)
(***************************************************************************)
CR == "\r"
LF == "\n"

\* The senders and the recipients the calls of Send draw from: valid
\* addresses, one with a LF at its end and one with a CR at its start.
Senders == { <<"s">>, <<"s", LF>> }

Rcpts == { <<"a">>, <<"b">>, <<CR, "b">> }

RcptLists == UNION { [1..n -> Rcpts] : n \in 0..MaxRcpt }

NoArg == <<>>

(***************************************************************************)
(* Error values returned by the methods.  The wrapped errors              *)
(* (fmt.Errorf("failed to ...: %w")) are named after the failing stage.    *)
(***************************************************************************)
Nil == "nil"
ErrUnsupportedAuthExt == "ErrUnsupportedAuthExt"
ErrFoundCRLF == "ErrFoundCRLF"
ErrClientNotInitialized == "ErrClientNotInitialized"
ErrDial == "failed to dialer.DialContext"
ErrNewClient == "failed to smtp.NewClient"
ErrHello == "failed to client.Hello"
ErrStartTLS == "failed to client.StartTLS"
ErrAuth == "failed to client.Auth"
ErrMail == "failed to client.Mail"
ErrRcpt == "failed to client.Rcpt"
ErrData == "failed to client.Data"
ErrWrite == "failed to write message"
ErrCloseMsg == "failed to close message"
ErrQuit == "client.Quit error"

ConnectErrors == {ErrDial, ErrNewClient, ErrHello, ErrStartTLS, ErrUnsupportedAuthExt, ErrAuth}
SendStageErrors == {ErrMail, ErrRcpt, ErrData, ErrWrite, ErrCloseMsg}

(***************************************************************************)
(* The steps a method issues.  Step(cmd, sid, arg, ok): command cmd on    *)
(* the session sid (0 while no session exists), with argument arg; ok is   *)
(* the answer: the step succeeded (for an Extension query: the extension   *)
(* is advertised).                                                         *)
(***************************************************************************)
Step(cmd, sid, arg, ok) == [cmd |-> cmd, sid |-> sid, arg |-> arg, ok |-> ok]

\* The steps that touch the network (the Extension queries read the
\* capabilities the greeting already delivered).
NetCmds == {"DIAL", "NEWCLIENT", "HELLO", "STARTTLS", "AUTH", "NOOP",
            "MAIL", "RCPT", "DATA", "WRITE", "CLOSEMSG", "QUIT"}

Cmds(w) == [i \in DOMAIN w |-> w[i].cmd]

Count(w, cmd) == Cardinality({i \in DOMAIN w : w[i].cmd = cmd})

(***************************************************************************)
(* validateLine: a line has CR or LF.                                      *)
(***************************************************************************)
\* validateLine as it would be if it looked for "\r" alone.
validateLine_OnlyCR(line) ==
    IF \E i \in DOMAIN line : line[i] = CR THEN ErrFoundCRLF ELSE Nil

validateLine(line) ==
    IF \E i \in DOMAIN line : line[i] \in {CR, LF} THEN ErrFoundCRLF ELSE Nil

(***************************************************************************)
(* The server's (and network's) answers to one Connect.                    *)
(***************************************************************************)
\* abort: client.Auth ended a failed exchange with a QUIT that closed the
\* stream (net/smtp does so when the server rejects the credentials; an
\* exchange broken by the network leaves the stream as it is).
AllAnswers ==
    [dial : BOOLEAN, greet : BOOLEAN, hello : BOOLEAN, extTLS : BOOLEAN,
     tls : BOOLEAN, extAuth : BOOLEAN, auth : BOOLEAN, abort : BOOLEAN]

\* The answers Connect never asks for, given the others: after a failed step
\* nothing more is asked, and STARTTLS is asked for only when advertised.
Unread(s) ==
    IF ~s.dial THEN {"greet", "hello", "extTLS", "tls", "extAuth", "auth", "abort"}
    ELSE IF ~s.greet THEN {"hello", "extTLS", "tls", "extAuth", "auth", "abort"}
    ELSE IF ~s.hello THEN {"extTLS", "tls", "extAuth", "auth", "abort"}
    ELSE IF s.extTLS /\ ~s.tls THEN {"extAuth", "auth", "abort"}
    ELSE (IF ~s.extTLS THEN {"tls"} ELSE {})
         \cup (IF ~s.extAuth THEN {"auth", "abort"}
               ELSE IF s.auth THEN {"abort"}
               ELSE {})

\* One representative of every way a server can answer: the answers that
\* are not asked for are fixed.
ServerAnswers == {s \in AllAnswers : \A f \in Unread(s) : s[f]}

\* A session as the dial creates it; the negotiation fills it in.
NewSession == [open |-> TRUE, greeted |-> FALSE, tls |-> FALSE, authed |-> FALSE]

\* The result of a method: the Client's fields after it, what it issued,
\* and the error it returns.
Result(cl, ss, w, err) == [client |-> cl, sessions |-> ss, wire |-> w, err |-> err]

(***************************************************************************)
(* NewClient.                                                              *)
(***************************************************************************)
\* A PlainAuth that is nil when the login is empty.
PlainAuth_NilWhenEmpty(login, password) == login # ""

\* smtp.PlainAuth("", login, password, host) # nil: it returns a pointer to
\* a new value for every login and password.
PlainAuth(login, password) == TRUE

\* auth: smtp.PlainAuth("", opts.Login, opts.Password, opts.Host)
NewClientAuth == PlainAuth(opts.Login, opts.Password)

NewClientHandle == 0       \* client: left nil

(***************************************************************************)
(* Connect(cl, au, ss, srv): Client.Connect on a Client whose fields are   *)
(* client = cl, auth # nil = au, with the sessions ss opened so far, when  *)
(* the server answers srv.  Each return of the code is one branch.         *)
(***************************************************************************)
\* The upgrade run whatever the server advertises.
UpgradeOffered_Always(srv) == TRUE

\* ok of client.Extension(extStartTLS): the upgrade is offered.
UpgradeOffered(srv) == srv.extTLS

\* The answer of the query for AUTH not looked at.
AuthSupported_Ignored(srv) == TRUE

\* ok of client.Extension(extAuth): authentication is offered.
AuthSupported(srv) == srv.extAuth

\* The error of client.StartTLS dropped: the negotiation goes on in clear.
UpgradeFailed_Ignored(srv) == FALSE

\* err != nil of client.StartTLS, called when the upgrade is offered.
UpgradeFailed(srv) == UpgradeOffered(srv) /\ ~srv.tls

\* The error of client.Auth dropped.
AuthFailed_Ignored(srv) == FALSE

\* err != nil of client.Auth.
AuthFailed(srv) == ~srv.auth

\* The assignment left out.
ConnectStore_Forget(cl, id) == cl

\* c.client = client, on the one path that returns nil.
ConnectStore(cl, id) == id

Connect(cl, au, ss, srv) ==
    LET id == Len(ss) + 1
        wDial == << Step("DIAL", 0, NoArg, srv.dial) >>
        wNew == Append(wDial, Step("NEWCLIENT", id, NoArg, srv.greet))
        wHello == Append(wNew, Step("HELLO", id, NoArg, srv.hello))
        wExtTLS == Append(wHello, Step("EXT_STARTTLS", id, NoArg, srv.extTLS))
        wTLS == IF UpgradeOffered(srv)
                THEN Append(wExtTLS, Step("STARTTLS", id, NoArg, srv.tls))
                ELSE wExtTLS
        wExtAuth == Append(wTLS, Step("EXT_AUTH", id, NoArg, srv.extAuth))
        wAuth == Append(wExtAuth, Step("AUTH", id, NoArg, srv.auth))
        sDial == NewSession
        sHello == [sDial EXCEPT !.greeted = TRUE]
        sTLS == [sHello EXCEPT !.tls = UpgradeOffered(srv) /\ srv.tls]
        sAuth == [sTLS EXCEPT !.authed = srv.auth]
    IN  IF ~srv.dial
        THEN Result(cl, ss, wDial, ErrDial)
        ELSE IF ~srv.greet
        \* smtp.NewClient closes the stream when the greeting fails
        THEN Result(cl, Append(ss, [sDial EXCEPT !.open = FALSE]), wNew, ErrNewClient)
        ELSE IF ~srv.hello
        THEN Result(cl, Append(ss, sDial), wHello, ErrHello)
        ELSE IF UpgradeFailed(srv)
        THEN Result(cl, Append(ss, sHello), wTLS, ErrStartTLS)
        ELSE IF ~au
        THEN Result(ConnectStore(cl, id), Append(ss, sTLS), wTLS, Nil)
        ELSE IF ~AuthSupported(srv)
        THEN Result(cl, Append(ss, sTLS), wExtAuth, ErrUnsupportedAuthExt)
        ELSE IF AuthFailed(srv)
        THEN Result(cl, Append(ss, [sTLS EXCEPT !.open = ~srv.abort]), wAuth, ErrAuth)
        ELSE Result(ConnectStore(cl, id), Append(ss, sAuth), wAuth, Nil)

(***************************************************************************)
(* EnsureConnected(cl, au, ss, noopOk, srv): Client.EnsureConnected; the   *)
(* probe on the stored handle succeeds iff noopOk.                         *)
(***************************************************************************)
\* EnsureConnected as it would be if it ran a failed Connect once more.
EnsureConnected_Retry(cl, au, ss, noopOk, srv) ==
    LET probe == IF cl # 0 THEN << Step("NOOP", cl, NoArg, noopOk) >> ELSE << >>
        r1 == Connect(cl, au, ss, srv)
        r2 == Connect(cl, au, r1.sessions, srv)
    IN  IF cl # 0 /\ noopOk
        THEN Result(cl, ss, probe, Nil)
        ELSE IF r1.err = Nil
        THEN Result(r1.client, r1.sessions, probe \o r1.wire, Nil)
        ELSE Result(r2.client, r2.sessions, probe \o r1.wire \o r2.wire, r2.err)

\* EnsureConnected without the probe: a Connect on every call.
EnsureConnected_AlwaysConnect(cl, au, ss, noopOk, srv) == Connect(cl, au, ss, srv)

EnsureConnected(cl, au, ss, noopOk, srv) ==
    IF cl # 0
    THEN LET probe == << Step("NOOP", cl, NoArg, noopOk) >>
         IN  IF ~noopOk
             THEN LET r == Connect(cl, au, ss, srv)
                  IN  Result(r.client, r.sessions, probe \o r.wire, r.err)
             ELSE Result(cl, ss, probe, Nil)
    ELSE Connect(cl, au, ss, srv)

(***************************************************************************)
(* Send(cl, ss, to, from, rej): Client.Send.  The server rejects the       *)
(* rej-th command this call issues (MAIL, the RCPTs, DATA, the write of    *)
(* the message, its close) and accepts the others; rej = 0 rejects none.   *)
(***************************************************************************)
Accepted(k, rej) == k # rej

\* for _, recp := range to { validateLine(recp) }
ValidateRcpts(to) ==
    IF \E i \in DOMAIN to : validateLine(to[i]) # Nil THEN ErrFoundCRLF ELSE Nil

\* The check for nil left out.
NotInitialized_Never(cl) == FALSE

\* c.client == nil
NotInitialized(cl) == cl = 0

\* The loop as it would be if it announced every recipient and reported a
\* rejection only at its end.
RcptLoop_NoStop(cl, to, i, w, rej) ==
    LET rest == [j \in 1..(Len(to) - i + 1) |->
                    Step("RCPT", cl, to[i + j - 1], Accepted(Len(w) + j, rej))]
    IN  [wire |-> w \o rest,
         err |-> IF \E j \in DOMAIN rest : ~rest[j].ok THEN ErrRcpt ELSE Nil]

\* for _, addr := range to { c.client.Rcpt(addr) }, from the i-th recipient
\* on, after the steps w: the steps issued and the error of the loop.
RECURSIVE RcptLoop(_, _, _, _, _)
RcptLoop(cl, to, i, w, rej) ==
    IF i > Len(to)
    THEN [wire |-> w, err |-> Nil]
    ELSE LET w1 == Append(w, Step("RCPT", cl, to[i], Accepted(Len(w) + 1, rej)))
         IN  IF ~Accepted(Len(w1), rej)
             THEN [wire |-> w1, err |-> ErrRcpt]
             ELSE RcptLoop(cl, to, i + 1, w1, rej)

\* The data phase as it would be if a rejected DATA were issued once more.
DataPhase_RetryData(cl, w, rej) ==
    LET wData == Append(w, Step("DATA", cl, NoArg, Accepted(Len(w) + 1, rej)))
        wAgain == Append(wData, Step("DATA", cl, NoArg, TRUE))
        wUsed == IF Accepted(Len(wData), rej) THEN wData ELSE wAgain
        wWrite == Append(wUsed, Step("WRITE", cl, NoArg, Accepted(Len(wUsed) + 1, rej)))
        wClose == Append(wWrite, Step("CLOSEMSG", cl, NoArg, Accepted(Len(wWrite) + 1, rej)))
    IN  IF ~Accepted(Len(wWrite), rej)
        THEN [wire |-> wWrite, err |-> ErrWrite]
        ELSE IF ~Accepted(Len(wClose), rej)
        THEN [wire |-> wClose, err |-> ErrCloseMsg]
        ELSE [wire |-> wClose, err |-> Nil]

\* c.client.Data(), w.Write(msg), w.Close(), after the steps w: the steps
\* issued and the error.
DataPhase(cl, w, rej) ==
    LET wData == Append(w, Step("DATA", cl, NoArg, Accepted(Len(w) + 1, rej)))
        wWrite == Append(wData, Step("WRITE", cl, NoArg, Accepted(Len(wData) + 1, rej)))
        wClose == Append(wWrite, Step("CLOSEMSG", cl, NoArg, Accepted(Len(wWrite) + 1, rej)))
    IN  IF ~Accepted(Len(wData), rej)
        THEN [wire |-> wData, err |-> ErrData]
        ELSE IF ~Accepted(Len(wWrite), rej)
        THEN [wire |-> wWrite, err |-> ErrWrite]
        ELSE IF ~Accepted(Len(wClose), rej)
        THEN [wire |-> wClose, err |-> ErrCloseMsg]
        ELSE [wire |-> wClose, err |-> Nil]

\* Send as it would be if it looked at the handle before the addresses.
Send_HandleFirst(cl, ss, to, from, rej) ==
    IF NotInitialized(cl)
    THEN Result(cl, ss, << >>, ErrClientNotInitialized)
    ELSE IF validateLine(from) # Nil \/ ValidateRcpts(to) # Nil
    THEN Result(cl, ss, << >>, ErrFoundCRLF)
    ELSE LET rcpt == RcptLoop(cl, to, 1, << Step("MAIL", cl, from, Accepted(1, rej)) >>, rej)
             data == DataPhase(cl, rcpt.wire, rej)
         IN  IF ~Accepted(1, rej)
             THEN Result(cl, ss, << Step("MAIL", cl, from, FALSE) >>, ErrMail)
             ELSE IF rcpt.err # Nil
             THEN Result(cl, ss, rcpt.wire, rcpt.err)
             ELSE Result(cl, ss, data.wire, data.err)

Send(cl, ss, to, from, rej) ==
    IF validateLine(from) # Nil
    THEN Result(cl, ss, << >>, ErrFoundCRLF)
    ELSE IF ValidateRcpts(to) # Nil
    THEN Result(cl, ss, << >>, ErrFoundCRLF)
    ELSE IF NotInitialized(cl)
    THEN Result(cl, ss, << >>, ErrClientNotInitialized)
    ELSE LET wMail == << Step("MAIL", cl, from, Accepted(1, rej)) >>
         IN  IF ~Accepted(Len(wMail), rej)
             THEN Result(cl, ss, wMail, ErrMail)
             ELSE LET rcpt == RcptLoop(cl, to, 1, wMail, rej)
                  IN  IF rcpt.err # Nil
                      THEN Result(cl, ss, rcpt.wire, rcpt.err)
                      ELSE LET data == DataPhase(cl, rcpt.wire, rej)
                           IN  Result(cl, ss, data.wire, data.err)

(***************************************************************************)
(* Close(cl, ss, quitOk): Client.Close; QUIT succeeds iff quitOk, and a    *)
(* QUIT that succeeds closes the stream of its session.                    *)
(***************************************************************************)
CloseHandle(cl) == cl       \* Close assigns nothing to c.client

Close(cl, ss, quitOk) ==
    IF cl # 0
    THEN Result(CloseHandle(cl),
                IF quitOk THEN [ss EXCEPT ![cl].open = FALSE] ELSE ss,
                << Step("QUIT", cl, NoArg, quitOk) >>,
                IF quitOk THEN Nil ELSE ErrQuit)
    ELSE Result(cl, ss, << >>, Nil)

(***************************************************************************)
(* The state machine: one Client, built by NewClient, and any sequence of  *)
(* calls of its methods.                                                   *)
(***************************************************************************)
NoCall == [op |-> "NewClient", to |-> << >>, from |-> << >>, before |-> 0, err |-> Nil]

\* A call in which nothing failed: it returned nil and every command it
\* issued was accepted.
NoFailure(w, err) ==
    err = Nil /\ \A i \in DOMAIN w : w[i].cmd \in NetCmds => w[i].ok

\* What an EnsureConnected call keeps of the call before it, when that was an
\* EnsureConnected in which nothing failed: whether it negotiated a session
\* or only probed.  Every other pair of calls keeps "none".
Summary(op, c, w) ==
    IF op = "EnsureConnected" /\ c.op = "EnsureConnected" /\ NoFailure(w, c.err)
    THEN IF Count(w, "DIAL") > 0 THEN "connected" ELSE "probed"
    ELSE "none"

\* The goroutines that call EnsureConnected on the one Client.
Threads == {1, 2}

\* A goroutine that has not called yet.
Idle == [pc |-> "idle", obs |-> 0, wire |-> << >>, new |-> 0, err |-> Nil, after |-> {}]

\* No Email constructed yet.
NoEmails == << >>

\* No Attach call yet.
NoCalls == [m \in {"e", "twin"} |-> << >>]

\* The Options of the Client whose calls Spec follows.
SomeOptions == [Login |-> "user", Password |-> "secret"]

Init ==
    /\ opts = SomeOptions
    /\ client = NewClientHandle
    /\ auth = NewClientAuth
    /\ sessions = << >>
    /\ wire = << >>
    /\ call = NoCall
    /\ prev = "none"
    /\ threads = [t \in Threads |-> Idle]
    /\ stored = << >>
    /\ emails = NoEmails
    /\ attached = NoCalls
    /\ built = << >>

\* What every call does to the state, given the result r of its method.
Returns(op, to, from, r) ==
    /\ client' = r.client
    /\ sessions' = r.sessions
    /\ wire' = r.wire
    /\ call' = [op |-> op, to |-> to, from |-> from, before |-> client, err |-> r.err]
    /\ prev' = Summary(op, call, wire)
    /\ UNCHANGED <<auth, opts, threads, stored, emails, attached, built>>

\* A command on a session whose stream is closed cannot succeed.
Open(cl) == cl # 0 /\ sessions[cl].open

DoConnect ==
    /\ Len(sessions) < MaxSessions
    /\ \E srv \in ServerAnswers :
          Returns("Connect", << >>, << >>, Connect(client, auth, sessions, srv))

DoEnsureConnected ==
    \E noopOk \in BOOLEAN, srv \in ServerAnswers :
        /\ noopOk => Open(client)
        /\ (client = 0 \/ ~noopOk) => Len(sessions) < MaxSessions
        /\ Returns("EnsureConnected", << >>, << >>,
                   EnsureConnected(client, auth, sessions, noopOk, srv))

\* The commands of a Send the server may reject: any one of them, or none.
\* A Send that issues no command gets no answer, and on a closed stream the
\* first command already fails.
Rejections(to, from) ==
    IF client = 0 \/ validateLine(from) # Nil \/ ValidateRcpts(to) # Nil
    THEN {0}
    ELSE IF ~Open(client)
    THEN {1}
    ELSE 0..(Len(to) + 4)

DoSend ==
    \E to \in RcptLists, from \in Senders :
        \E rej \in Rejections(to, from) :
            Returns("Send", to, from, Send(client, sessions, to, from, rej))

DoClose ==
    \E quitOk \in BOOLEAN :
        /\ quitOk => Open(client)
        /\ Returns("Close", << >>, << >>, Close(client, sessions, quitOk))

Next == DoConnect \/ DoEnsureConnected \/ DoSend \/ DoClose

Spec == Init /\ [][Next]_vars

(***************************************************************************)
(* Vocabulary of the properties.                                           *)
(***************************************************************************)
HasCRLF(line) == \E i \in DOMAIN line : line[i] = CR \/ line[i] = LF

ValidAddresses(c) == ~HasCRLF(c.from) /\ \A i \in DOMAIN c.to : ~HasCRLF(c.to[i])

Has(w, cmd) == \E i \in DOMAIN w : w[i].cmd = cmd

IsPrefix(p, q) == Len(p) <= Len(q) /\ \A i \in DOMAIN p : p[i] = q[i]

\* The steps of the Connect a call ran: the wire without the probe.
ConnectPart(w) == IF w # << >> /\ w[1].cmd = "NOOP" THEN Tail(w) ELSE w

\* A step that did not succeed.  The query for STARTTLS cannot fail: its
\* answer only decides whether the upgrade is run.
StepFailed(st) == st.cmd # "EXT_STARTTLS" /\ ~st.ok

\* The session a Connect dialled, 0 when the dial failed.
Dialled(w) == IF Len(ConnectPart(w)) >= 2 THEN ConnectPart(w)[2].sid ELSE 0

(***************************************************************************)
(* C1: a Send whose sender or some recipient, at any position, contains CR *)
(* or LF returns ErrFoundCRLF and issues no command at all, whatever the   *)
(* handle is, and leaves the handle as it was.                             *)
(***************************************************************************)
C1_InvalidAddressNoCommand ==
    (call.op = "Send" /\ ~ValidAddresses(call))
        => /\ call.err = ErrFoundCRLF
           /\ wire = << >>
           /\ client = call.before

\* A Send on a stored handle with a valid sender and a valid first
\* recipient, whose second recipient is invalid.
C1_Witness ==
    /\ call.op = "Send"
    /\ call.before # 0
    /\ ~HasCRLF(call.from)
    /\ Len(call.to) = 2
    /\ ~HasCRLF(call.to[1])
    /\ HasCRLF(call.to[2])
    /\ call.err = ErrFoundCRLF

(***************************************************************************)
(* C2: a Send with valid addresses on a Client that holds no handle        *)
(* returns ErrClientNotInitialized, issues no command (so neither dials    *)
(* nor connects), and leaves the handle absent.                            *)
(***************************************************************************)
C2_SendWithoutHandle ==
    (call.op = "Send" /\ ValidAddresses(call) /\ call.before = 0)
        => /\ call.err = ErrClientNotInitialized
           /\ wire = << >>
           /\ client = 0

C2_Witness ==
    /\ call.op = "Send"
    /\ ValidAddresses(call)
    /\ Len(call.to) = 2
    /\ call.before = 0
    /\ call.err = ErrClientNotInitialized
    /\ sessions = << >>

(***************************************************************************)
(* C3: after any Connect that returns an error the Client holds no handle, *)
(* also when it stored a handle before the call.                           *)
(***************************************************************************)
C3_FailedConnectHoldsNoHandle ==
    (call.op = "Connect" /\ call.err # Nil) => client = 0

(***************************************************************************)
(* C4: after Close returns on a Client that held a handle, the Client      *)
(* holds no handle, whether QUIT succeeded or failed; so a Send that       *)
(* follows finds no handle and a Close that follows issues no command.     *)
(***************************************************************************)
C4_CloseReleasesHandle ==
    (call.op = "Close" /\ call.before # 0) => client = 0

(***************************************************************************)
(* C5: when authentication is configured and the server does not advertise *)
(* AUTH, the Connect returns ErrUnsupportedAuthExt, starts no              *)
(* authentication exchange on that connection and stores no handle.        *)
(***************************************************************************)
C5_NoAuthExtension ==
    (auth /\ \E i \in DOMAIN wire : wire[i].cmd = "EXT_AUTH" /\ ~wire[i].ok)
        => /\ call.err = ErrUnsupportedAuthExt
           /\ ~Has(wire, "AUTH")
           /\ client = call.before
           /\ client # Dialled(wire)

\* A Connect that upgraded the connection and then found no AUTH.
C5_Witness ==
    /\ call.op = "Connect"
    /\ auth
    /\ Has(wire, "STARTTLS")
    /\ wire[Len(wire)].cmd = "EXT_AUTH"
    /\ ~wire[Len(wire)].ok
    /\ call.err = ErrUnsupportedAuthExt

(***************************************************************************)
(* C6: every Connect runs dial, greeting, encryption upgrade (only if      *)
(* STARTTLS is advertised), the check for AUTH and the authentication      *)
(* exchange in this order; a step is started only after every earlier one  *)
(* succeeded, the first failing step ends the call with an error, and the  *)
(* handle is stored only after the last step succeeded.                    *)
(***************************************************************************)
ConnectOrder(upgrade) ==
    << "DIAL", "NEWCLIENT", "HELLO", "EXT_STARTTLS" >>
    \o (IF upgrade THEN << "STARTTLS" >> ELSE << >>)
    \o << "EXT_AUTH", "AUTH" >>

\* The server advertised STARTTLS to the Connect whose steps are cp.
Advertised(cp) == \E i \in DOMAIN cp : cp[i].cmd = "EXT_STARTTLS" /\ cp[i].ok

C6_ConnectOrder ==
    LET cp == ConnectPart(wire)
        n == Len(cp)
    IN  (call.op \in {"Connect", "EnsureConnected"} /\ cp # << >>)
            => /\ IsPrefix(Cmds(cp), ConnectOrder(Advertised(cp)))
               /\ \A i \in 1..(n - 1) : ~StepFailed(cp[i])
               /\ StepFailed(cp[n]) <=> call.err # Nil
               /\ call.err = Nil => Cmds(cp) = ConnectOrder(Advertised(cp))
               /\ \A i \in 2..n : cp[i].sid = Dialled(wire)
               /\ call.err = Nil => client = Dialled(wire)
               /\ call.err # Nil => client = call.before
               /\ (call.err # Nil /\ Dialled(wire) # 0) => client # Dialled(wire)

\* A Connect that ran every step, the upgrade included, and stored the handle.
C6_Witness ==
    /\ call.op = "Connect"
    /\ Cmds(wire) = ConnectOrder(TRUE)
    /\ call.err = Nil
    /\ client = Dialled(wire)
    /\ client # call.before

(***************************************************************************)
(* C7: when nothing fails, two EnsureConnected calls in a row negotiate at *)
(* most once in total: the first negotiates only if no handle exists, the  *)
(* second issues only the NOOP probe, starts no dial and leaves the stored *)
(* handle unchanged.                                                       *)
(***************************************************************************)
C7_EnsureTwice ==
    (call.op = "EnsureConnected" /\ NoFailure(wire, call.err))
        => /\ Count(wire, "DIAL") > 0 => call.before = 0
           /\ prev # "none"
                => /\ wire = << Step("NOOP", call.before, NoArg, TRUE) >>
                   /\ Count(wire, "DIAL") = 0
                   /\ client = call.before
                   /\ client # 0
           /\ (IF prev = "connected" THEN 1 ELSE 0) + Count(wire, "DIAL") <= 1

\* The second of two calls, after a first one that negotiated the session.
C7_Witness ==
    /\ call.op = "EnsureConnected"
    /\ prev = "connected"
    /\ NoFailure(wire, call.err)
    /\ Cmds(wire) = << "NOOP" >>
    /\ client = call.before

(***************************************************************************)
(* C8: EnsureConnected on a Client whose stored handle fails the NOOP      *)
(* probe runs a fresh Connect and discards the old handle: when the call   *)
(* returns the Client no longer stores the handle that failed the probe,   *)
(* it stores the new handle if the reconnect succeeded and none if it      *)
(* failed.  With no handle stored it runs Connect without any probe.       *)
(***************************************************************************)
C8_FailedProbeDiscardsHandle ==
    call.op = "EnsureConnected"
        => /\ (call.before # 0 /\ ~wire[1].ok)
                => /\ wire[1] = Step("NOOP", call.before, NoArg, FALSE)
                   /\ Count(wire, "NOOP") = 1
                   /\ Count(wire, "DIAL") = 1
                   /\ client # call.before
                   /\ call.err = Nil => client = Dialled(wire)
                   /\ call.err # Nil => client = 0
           /\ call.before = 0
                => /\ ~Has(wire, "NOOP")
                   /\ wire[1].cmd = "DIAL"

(***************************************************************************)
(* C9: a Send with valid addresses over a stored handle issues, in this    *)
(* order, one MAIL for the sender, one RCPT per recipient in list order,   *)
(* DATA, the write of the message and its close; the first rejected step   *)
(* ends the call with an error and no later step is issued.                *)
(***************************************************************************)
SendOrder(c) ==
    << [cmd |-> "MAIL", sid |-> c.before, arg |-> c.from] >>
    \o [i \in DOMAIN c.to |-> [cmd |-> "RCPT", sid |-> c.before, arg |-> c.to[i]]]
    \o << [cmd |-> "DATA", sid |-> c.before, arg |-> NoArg],
          [cmd |-> "WRITE", sid |-> c.before, arg |-> NoArg],
          [cmd |-> "CLOSEMSG", sid |-> c.before, arg |-> NoArg] >>

\* The steps without their answers.
Issued(w) == [i \in DOMAIN w |-> [cmd |-> w[i].cmd, sid |-> w[i].sid, arg |-> w[i].arg]]

C9_SendOrder ==
    (call.op = "Send" /\ ValidAddresses(call) /\ call.before # 0)
        => /\ wire # << >>
           /\ IsPrefix(Issued(wire), SendOrder(call))
           /\ \A i \in 1..(Len(wire) - 1) : wire[i].ok
           /\ ~wire[Len(wire)].ok <=> call.err # Nil
           /\ call.err = Nil => Issued(wire) = SendOrder(call)
           /\ (call.err = ErrRcpt) => ~Has(wire, "DATA")

\* The first of two different recipients is rejected.
C9_Witness ==
    /\ call.op = "Send"
    /\ Len(call.to) = 2
    /\ call.to[1] # call.to[2]
    /\ Cmds(wire) = << "MAIL", "RCPT" >>
    /\ ~wire[2].ok
    /\ call.err = ErrRcpt

(***************************************************************************)
(* C10: Send leaves the stored handle unchanged whatever its outcome:      *)
(* after a Send that failed at any stage the Client stores the same        *)
(* handle, has issued no QUIT, has not reconnected and has issued no       *)
(* command of that Send a second time.                                     *)
(***************************************************************************)
C10_SendKeepsHandle ==
    call.op = "Send"
        => /\ client = call.before
           /\ ~Has(wire, "QUIT")
           /\ ~Has(wire, "DIAL") /\ ~Has(wire, "NOOP")
           /\ \A cmd \in {"MAIL", "DATA", "WRITE", "CLOSEMSG"} : Count(wire, cmd) <= 1
           /\ Count(wire, "RCPT") <= Len(call.to)
           /\ \A i \in DOMAIN wire : wire[i].sid = call.before
           /\ call.err \in SendStageErrors
                => Cardinality({i \in DOMAIN wire : ~wire[i].ok}) = 1

\* A Send whose DATA was rejected, after both recipients were accepted.
C10_Witness ==
    /\ call.op = "Send"
    /\ call.err = ErrData
    /\ Len(call.to) = 2
    /\ client = call.before
    /\ client # 0

(***************************************************************************)
(* C11: one Client owns at most one connection: in every reachable state   *)
(* at most one session it opened is still open, and that session is the    *)
(* one the stored handle refers to; a successful Connect on a Client that  *)
(* holds a handle replaces it without leaving the prior session open.      *)
(***************************************************************************)
OpenSessions == {i \in DOMAIN sessions : sessions[i].open}

C11_OneOpenSession ==
    /\ Cardinality(OpenSessions) <= 1
    /\ \A i \in OpenSessions : i = client
    /\ (call.op \in {"Connect", "EnsureConnected"} /\ call.err = Nil
            /\ call.before # 0 /\ client # call.before)
        => ~sessions[call.before].open

(***************************************************************************)
(* C16: within one Connect, when the server advertises STARTTLS the        *)
(* authentication exchange is never started before the upgrade succeeded   *)
(* on that connection; when the upgrade fails, Connect fails without       *)
(* attempting authentication.                                              *)
(***************************************************************************)
C16_NoAuthBeforeUpgrade ==
    LET cp == ConnectPart(wire)
    IN  /\ \A i \in DOMAIN cp :
              (cp[i].cmd = "AUTH" /\ Advertised(cp))
                  => \E j \in 1..(i - 1) :
                        /\ cp[j].cmd = "STARTTLS"
                        /\ cp[j].ok
                        /\ cp[j].sid = cp[i].sid
        /\ (\E j \in DOMAIN cp : cp[j].cmd = "STARTTLS" /\ ~cp[j].ok)
              => /\ call.err = ErrStartTLS
                 /\ ~Has(cp, "AUTH")
                 /\ ~Has(cp, "EXT_AUTH")
                 /\ client = call.before
        /\ (Advertised(cp) /\ call.err = Nil /\ call.op \in {"Connect", "EnsureConnected"})
              => sessions[client].tls

\* A Connect whose upgrade failed.
C16_Witness ==
    /\ call.op = "Connect"
    /\ Advertised(wire)
    /\ wire[Len(wire)].cmd = "STARTTLS"
    /\ ~wire[Len(wire)].ok
    /\ call.err = ErrStartTLS

(***************************************************************************)
(* C17: after a Connect that fails at any step after the dial succeeded    *)
(* (greeting, upgrade, missing AUTH, authentication) the stream and the    *)
(* partial session of that attempt are not left open.                      *)
(***************************************************************************)
C17_FailedConnectClosesStream ==
    (call.op \in {"Connect", "EnsureConnected"} /\ call.err # Nil /\ Dialled(wire) # 0)
        => ~sessions[Dialled(wire)].open

(***************************************************************************)
(* C19: the library never retries: one EnsureConnected call issues at most *)
(* one NOOP probe and at most one Connect attempt and returns the error of *)
(* that attempt; Connect, Send and Close issue every step at most once per *)
(* call; the only automatic reconnection is the one after a failed probe   *)
(* inside EnsureConnected.                                                 *)
(***************************************************************************)
\* The error Connect returns when the step cmd fails.
ErrorOfStep(cmd) ==
    CASE cmd = "DIAL" -> ErrDial
      [] cmd = "NEWCLIENT" -> ErrNewClient
      [] cmd = "HELLO" -> ErrHello
      [] cmd = "STARTTLS" -> ErrStartTLS
      [] cmd = "EXT_AUTH" -> ErrUnsupportedAuthExt
      [] cmd = "AUTH" -> ErrAuth
      [] OTHER -> Nil

ConnectCmds == {"DIAL", "NEWCLIENT", "HELLO", "EXT_STARTTLS", "STARTTLS", "EXT_AUTH", "AUTH"}

C19_NoRetry ==
    /\ \A cmd \in ConnectCmds \cup {"NOOP", "MAIL", "DATA", "WRITE", "CLOSEMSG", "QUIT"} :
          Count(wire, cmd) <= 1
    /\ Count(wire, "RCPT") <= Len(call.to)
    /\ \A i \in DOMAIN wire :
          wire[i].cmd = "RCPT"
              => (i - 1 \in DOMAIN call.to /\ wire[i].arg = call.to[i - 1])
    /\ call.op = "EnsureConnected"
          => /\ call.err # Nil
                  => /\ Has(wire, "DIAL")
                     /\ call.err = ErrorOfStep(wire[Len(wire)].cmd)
             /\ (Has(wire, "DIAL") /\ call.before # 0)
                  => (wire[1].cmd = "NOOP" /\ ~wire[1].ok)
    /\ call.op = "Connect" => ~Has(wire, "NOOP")
    /\ call.op \in {"Send", "Close", "NewClient"}
          => \A cmd \in ConnectCmds \cup {"NOOP"} : ~Has(wire, cmd)
    /\ call.op # "Close" => ~Has(wire, "QUIT")

\* An EnsureConnected whose probe failed and whose one reconnect failed too.
C19_Witness ==
    /\ call.op = "EnsureConnected"
    /\ call.before # 0
    /\ Count(wire, "NOOP") = 1
    /\ ~wire[1].ok
    /\ Count(wire, "DIAL") = 1
    /\ call.err = ErrHello

(***************************************************************************)
(* C20: a handle stored in the Client refers to a session that completed   *)
(* the whole negotiation (greeting, the upgrade if it was advertised,      *)
(* authentication): the handle is set only as the last step of a fully     *)
(* successful Connect, and a stored handle is never modified in place, it  *)
(* is only replaced by the handle of a later complete negotiation.         *)
(***************************************************************************)
Negotiated(s) == s.greeted /\ s.authed

C20_HandleIsNegotiated ==
    /\ client # 0 => (client \in DOMAIN sessions /\ Negotiated(sessions[client]))
    /\ client # call.before
          => LET cp == ConnectPart(wire)
             IN  /\ call.op \in {"Connect", "EnsureConnected"}
                 /\ call.err = Nil
                 /\ Cmds(cp) = ConnectOrder(Advertised(cp))
                 /\ \A i \in DOMAIN cp : ~StepFailed(cp[i])
                 /\ client = Dialled(wire)
                 /\ client = Len(sessions)
                 /\ client > call.before
                 /\ sessions[client].tls = Advertised(cp)
                 /\ sessions[client].open

\* A second complete negotiation replaced the handle of the first.
C20_Witness ==
    /\ call.before # 0
    /\ client # call.before
    /\ Negotiated(sessions[call.before])
    /\ Negotiated(sessions[client])
    /\ sessions[client].tls

(***************************************************************************)
(* Two goroutines calling EnsureConnected on one Client with no lock: the  *)
(* Client has no mutex, so the read of c.client (smtp.go:105), the probe,  *)
(* the negotiation and the assignment of c.client (smtp.go:94) of the two  *)
(* calls interleave.  Each goroutine makes one call.                       *)
(***************************************************************************)
Finished(t) == threads[t].pc = "done"

\* smtp.go:105: the call reads c.client.
RaceRead(t) ==
    /\ threads[t].pc = "idle"
    /\ threads' = [threads EXCEPT ![t] =
                      [@ EXCEPT !.pc = IF client # 0 THEN "probe" ELSE "connect",
                                !.obs = client,
                                !.after = {u \in Threads : Finished(u)}]]
    /\ UNCHANGED <<client, auth, opts, sessions, wire, call, prev, stored, emails, attached, built>>

\* smtp.go:106-109: Noop on the handle that was read.
RaceProbe(t) ==
    /\ threads[t].pc = "probe"
    /\ \E noopOk \in BOOLEAN :
          /\ noopOk => sessions[threads[t].obs].open
          /\ threads' = [threads EXCEPT ![t] =
                            [@ EXCEPT !.pc = IF noopOk THEN "done" ELSE "connect",
                                      !.wire = << Step("NOOP", threads[t].obs, NoArg, noopOk) >>]]
    /\ UNCHANGED <<client, auth, opts, sessions, wire, call, prev, stored, emails, attached, built>>

\* smtp.go:60-92: dial and negotiation of Connect, up to its assignment.
RaceNegotiate(t) ==
    /\ threads[t].pc = "connect"
    /\ Len(sessions) < MaxSessions
    /\ \E srv \in ServerAnswers :
          LET r == Connect(threads[t].obs, auth, sessions, srv)
          IN  /\ sessions' = r.sessions
              /\ threads' = [threads EXCEPT ![t] =
                                [@ EXCEPT !.pc = IF r.err = Nil THEN "store" ELSE "done",
                                          !.wire = @ \o r.wire,
                                          !.new = IF r.err = Nil THEN Len(r.sessions) ELSE 0,
                                          !.err = r.err]]
    /\ UNCHANGED <<client, auth, opts, wire, call, prev, stored, emails, attached, built>>

\* smtp.go:94: c.client = client.
RaceStore(t) ==
    /\ threads[t].pc = "store"
    /\ client' = ConnectStore(client, threads[t].new)
    /\ stored' = Append(stored, t)
    /\ threads' = [threads EXCEPT ![t] = [@ EXCEPT !.pc = "done"]]
    /\ UNCHANGED <<auth, opts, sessions, wire, call, prev, emails, attached, built>>

NextRace ==
    \E t \in Threads : RaceRead(t) \/ RaceProbe(t) \/ RaceNegotiate(t) \/ RaceStore(t)

SpecRace == Init /\ [][NextRace]_vars

(***************************************************************************)
(* C18: the Client is not synchronised: two interleaved EnsureConnected    *)
(* calls on a Client without a handle can both read the absent handle and  *)
(* both negotiate; then two negotiations happen, the handle stored last is *)
(* the one retained and the other session stays open without an owner.     *)
(* When the second call starts after the first returned, it reads the      *)
(* handle the first stored and issues only the probe.                      *)
(***************************************************************************)
BothConnected ==
    \A t \in Threads : Finished(t) /\ threads[t].err = Nil /\ threads[t].new # 0

C18_UnsynchronisedEnsure ==
    /\ \A t, u \in Threads :
          (t # u /\ BothConnected /\ threads[t].obs = 0 /\ threads[u].obs = 0)
              => /\ t \notin threads[u].after
                 /\ Count(threads[t].wire, "DIAL") = 1
                 /\ Count(threads[u].wire, "DIAL") = 1
                 /\ threads[t].new # threads[u].new
                 /\ Len(stored) = 2
                 /\ client = threads[stored[2]].new
                 /\ sessions[threads[stored[1]].new].open
                 /\ Negotiated(sessions[threads[stored[1]].new])
                 /\ threads[stored[1]].new # client
    /\ \A t, u \in Threads :
          (t # u /\ Finished(u) /\ t \in threads[u].after
                 /\ threads[t].err = Nil /\ threads[t].new # 0)
              => /\ threads[u].obs = threads[t].new
                 /\ threads[u].wire # << >>
                 /\ threads[u].wire[1].cmd = "NOOP"
                 /\ threads[u].wire[1].sid = threads[t].new
                 /\ threads[u].wire[1].ok
                       => /\ threads[u].wire = << Step("NOOP", threads[t].new, NoArg, TRUE) >>
                          /\ Len(sessions) = 1
                          /\ client = threads[t].new

\* Both calls read the absent handle, both negotiated, both returned nil.
C18_Witness ==
    /\ BothConnected
    /\ \A t \in Threads : threads[t].obs = 0
    /\ Cardinality(OpenSessions) = 2
    /\ client \in OpenSessions

(***************************************************************************)
(* The Email builder.  Text is a sequence of characters, attachment data a *)
(* sequence of bytes (0..255).  Every character Build writes is tagged     *)
(* with its origin: own is TRUE for the characters of Build's format       *)
(* strings, of the boundary and of the encoder's output, FALSE for the     *)
(* characters copied from a field of the Email.                            *)
(***************************************************************************)
MaxAttach == 2      \* Attach calls on one Email

\* A separator with a bare line feed.
CRLF_BareLF == << LF >>

CRLF == << CR, LF >>

\* A boundary token that changes from one Build call to the next.
boundary_Token ==
    << "m", "a", "i", "l", "-", "b", "o", "u", "n", "d", "a", "r", "y" >>

boundary_PerCall == boundary_Token \o (IF built = << >> THEN << >> ELSE << "2" >>)

boundary ==
    << "m", "a", "i", "l", "-", "b", "o", "u", "n", "d", "a", "r", "y" >>

FromLabel ==
    << "F", "r", "o", "m", ":", " " >>

ToLabel ==
    << "T", "o", ":", " " >>

SubjectLabel ==
    << "S", "u", "b", "j", "e", "c", "t", ":", " " >>

MimeVersion ==
    << "M", "I", "M", "E", "-", "V", "e", "r", "s", "i", "o", "n", ":", " ",
       "1", ".", "0" >>

ContentTypeMixed ==
    << "C", "o", "n", "t", "e", "n", "t", "-", "T", "y", "p", "e", ":", " ",
       "m", "u", "l", "t", "i", "p", "a", "r", "t", "/", "m", "i", "x", "e",
       "d", ";", " ", "b", "o", "u", "n", "d", "a", "r", "y", "=" >>

ContentTypeText ==
    << "C", "o", "n", "t", "e", "n", "t", "-", "T", "y", "p", "e", ":", " ",
       "t", "e", "x", "t", "/", "p", "l", "a", "i", "n", ";", " ", "c", "h",
       "a", "r", "s", "e", "t", "=", "\"", "u", "t", "f", "-", "8", "\"" >>

TransferEncoding ==
    << "C", "o", "n", "t", "e", "n", "t", "-", "T", "r", "a", "n", "s", "f",
       "e", "r", "-", "E", "n", "c", "o", "d", "i", "n", "g", ":", " ", "b",
       "a", "s", "e", "6", "4" >>

Disposition ==
    << "C", "o", "n", "t", "e", "n", "t", "-", "D", "i", "s", "p", "o", "s",
       "i", "t", "i", "o", "n", ":", " ", "a", "t", "t", "a", "c", "h", "m",
       "e", "n", "t", ";", " ", "f", "i", "l", "e", "n", "a", "m", "e", "=" >>

ContentID ==
    << "C", "o", "n", "t", "e", "n", "t", "-", "I", "D", ":", " ", "<" >>

Dashes ==
    << "-", "-" >>

Semicolon ==
    << ";" >>

CloseAngle ==
    << ">" >>

\* base64.StdEncoding: the alphabet, and "=" as padding.
StdEncoding ==
    << "A", "B", "C", "D", "E", "F", "G", "H", "I", "J", "K", "L", "M", "N",
       "O", "P", "Q", "R", "S", "T", "U", "V", "W", "X", "Y", "Z", "a", "b",
       "c", "d", "e", "f", "g", "h", "i", "j", "k", "l", "m", "n", "o", "p",
       "q", "r", "s", "t", "u", "v", "w", "x", "y", "z", "0", "1", "2", "3",
       "4", "5", "6", "7", "8", "9", "+", "/" >>

Pad == "="

\* Characters Build writes itself, and characters it copies from a field.
Own(text) == [i \in DOMAIN text |-> [ch |-> text[i], own |-> TRUE]]
Field(text) == [i \in DOMAIN text |-> [ch |-> text[i], own |-> FALSE]]

\* strings.Join
RECURSIVE Join(_, _)
Join(elems, sep) ==
    IF elems = << >> THEN << >>
    ELSE IF Len(elems) = 1 THEN elems[1]
    ELSE elems[1] \o sep \o Join(Tail(elems), sep)

\* base64.StdEncoding.EncodedLen
EncodedLen(n) == ((n + 2) \div 3) * 4

\* base64.StdEncoding.Encode: three bytes give four characters; a last group
\* of one or two bytes is padded.
RECURSIVE Encode(_)
Encode(data) ==
    IF data = << >> THEN << >>
    ELSE LET n == Len(data)
             b1 == data[1]
             b2 == IF n >= 2 THEN data[2] ELSE 0
             b3 == IF n >= 3 THEN data[3] ELSE 0
             v == b1 * 65536 + b2 * 256 + b3
             c1 == StdEncoding[(v \div 262144) + 1]
             c2 == StdEncoding[((v \div 4096) % 64) + 1]
             c3 == IF n >= 2 THEN StdEncoding[((v \div 64) % 64) + 1] ELSE Pad
             c4 == IF n >= 3 THEN StdEncoding[(v % 64) + 1] ELSE Pad
         IN  << c1, c2, c3, c4 >> \o (IF n > 3 THEN Encode(SubSeq(data, 4, n)) ELSE << >>)

NewEmail(to, from, subject, body) ==
    [to |-> to, from |-> from, subject |-> subject, body |-> body, attachments |-> << >>]

\* An Attach that drops a second attachment of the same name.
Attach_Dedup(e, name, data) ==
    IF \E i \in DOMAIN e.attachments : e.attachments[i].name = name
    THEN e
    ELSE [e EXCEPT !.attachments = Append(@, [name |-> name, data |-> data])]

Attach(e, name, data) ==
    [e EXCEPT !.attachments = Append(@, [name |-> name, data |-> data])]

\* The five header lines and the body part.
BuildHead(e) ==
    Own(FromLabel) \o Field(e.from) \o Own(CRLF)
    \o Own(ToLabel) \o Field(Join(e.to, Semicolon)) \o Own(CRLF)
    \o Own(SubjectLabel) \o Field(e.subject) \o Own(CRLF)
    \o Own(MimeVersion \o CRLF)
    \o Own(ContentTypeMixed \o boundary \o CRLF)
    \o Own(CRLF \o Dashes \o boundary \o CRLF)
    \o Own(ContentTypeText \o CRLF)
    \o Own(CRLF) \o Field(e.body)

\* One pass of the loop over e.attachments.
BuildAttachment(atch) ==
    Own(CRLF \o CRLF \o Dashes \o boundary \o CRLF)
    \o Own(ContentTypeText \o CRLF)
    \o Own(TransferEncoding \o CRLF)
    \o Own(Disposition) \o Field(atch.name) \o Own(CRLF)
    \o Own(ContentID) \o Field(atch.name) \o Own(CloseAngle \o CRLF \o CRLF)
    \o Own(Encode(atch.data))

RECURSIVE BuildAttachments(_)
BuildAttachments(atchs) ==
    IF atchs = << >> THEN << >>
    ELSE BuildAttachment(Head(atchs)) \o BuildAttachments(Tail(atchs))

\* A closing delimiter that ends the line.
BuildClosing_EndLine == Own(CRLF \o CRLF \o Dashes \o boundary \o Dashes \o CRLF)

BuildClosing == Own(CRLF \o CRLF \o Dashes \o boundary \o Dashes)

\* Build: the buffer with the origin of each character.
BuildTagged(e) == BuildHead(e) \o BuildAttachments(e.attachments) \o BuildClosing

\* Build: the bytes returned.
Build(e) ==
    LET buf == BuildTagged(e)
    IN  [i \in DOMAIN buf |-> buf[i].ch]

\* Build assigns to no field of the Email.
BuildLeaves(e) == e

(***************************************************************************)
(* The builder as a state machine: one NewEmail call constructs two Emails *)
(* from the same arguments; the twin receives the Attach calls of e, in    *)
(* the same order; built holds what the last two Build calls returned.     *)
(***************************************************************************)
RecipientLists == { << <<"a">> >>, << <<"a">>, <<"b">> >> }
Bodies == { << >>, << "x", LF, "y" >> }
Sender == << "s" >>
Subject == << "t" >>

\* Attachments to choose from: a name repeats, and the data have the lengths
\* 0, 2 and 4, so that the encoder pads by one and, after a full group, by two.
Attachments ==
    { [name |-> <<"f">>, data |-> << >>],
      [name |-> <<"f">>, data |-> << 77, 97 >>],
      [name |-> <<"g">>, data |-> << 255, 239, 190, 0 >>] }

DoNewEmail ==
    /\ emails = NoEmails
    /\ \E to \in RecipientLists, body \in Bodies :
          emails' = [m \in {"e", "twin"} |-> NewEmail(to, Sender, Subject, body)]
    /\ UNCHANGED <<client, auth, opts, sessions, wire, call, prev, threads, stored, attached, built>>

DoAttach ==
    /\ emails # NoEmails
    /\ Len(attached["e"]) < MaxAttach
    /\ \E a \in Attachments :
          /\ emails' = [emails EXCEPT !["e"] = Attach(@, a.name, a.data)]
          /\ attached' = [attached EXCEPT !["e"] = Append(@, a)]
    /\ UNCHANGED <<client, auth, opts, sessions, wire, call, prev, threads, stored, built>>

\* The twin receives the next Attach call e received.
DoAttachTwin ==
    /\ emails # NoEmails
    /\ LET n == Len(attached["twin"]) + 1
       IN  /\ n \in DOMAIN attached["e"]
           /\ emails' = [emails EXCEPT !["twin"] =
                            Attach(@, attached["e"][n].name, attached["e"][n].data)]
           /\ attached' = [attached EXCEPT !["twin"] = Append(@, attached["e"][n])]
    /\ UNCHANGED <<client, auth, opts, sessions, wire, call, prev, threads, stored, built>>

\* What one Build call on the Email m returned, and the Email before and after.
Built(m) ==
    LET buf == BuildTagged(emails[m])
    IN  [who |-> m, of |-> emails[m], calls |-> attached[m],
         after |-> BuildLeaves(emails[m]),
         out |-> Build(emails[m]),
         own |-> [i \in DOMAIN buf |-> buf[i].own]]

DoBuild ==
    /\ emails # NoEmails
    /\ \E m \in {"e", "twin"} :
          /\ built' = IF built = << >> THEN << Built(m) >>
                      ELSE << built[Len(built)], Built(m) >>
          /\ emails' = [emails EXCEPT ![m] = BuildLeaves(@)]
    /\ UNCHANGED <<client, auth, opts, sessions, wire, call, prev, threads, stored, attached>>

NextBuild == DoNewEmail \/ DoAttach \/ DoAttachTwin \/ DoBuild

SpecBuild == Init /\ [][NextBuild]_vars

(***************************************************************************)
(* Vocabulary of the builder's properties.  The texts below are what a     *)
(* reader of the message expects, written out in full.                     *)
(***************************************************************************)
PartDelimiterText ==
    << CR, LF, CR, LF, "-", "-", "m", "a", "i", "l", "-", "b", "o", "u", "n",
       "d", "a", "r", "y", CR, LF >>

ClosingText ==
    << CR, LF, CR, LF, "-", "-", "m", "a", "i", "l", "-", "b", "o", "u", "n",
       "d", "a", "r", "y", "-", "-" >>

FixedHeaderText ==
    << "M", "I", "M", "E", "-", "V", "e", "r", "s", "i", "o", "n", ":", " ",
       "1", ".", "0", CR, LF, "C", "o", "n", "t", "e", "n", "t", "-", "T",
       "y", "p", "e", ":", " ", "m", "u", "l", "t", "i", "p", "a", "r", "t",
       "/", "m", "i", "x", "e", "d", ";", " ", "b", "o", "u", "n", "d", "a",
       "r", "y", "=", "m", "a", "i", "l", "-", "b", "o", "u", "n", "d", "a",
       "r", "y", CR, LF, CR, LF, "-", "-", "m", "a", "i", "l", "-", "b", "o",
       "u", "n", "d", "a", "r", "y", CR, LF, "C", "o", "n", "t", "e", "n",
       "t", "-", "T", "y", "p", "e", ":", " ", "t", "e", "x", "t", "/", "p",
       "l", "a", "i", "n", ";", " ", "c", "h", "a", "r", "s", "e", "t", "=",
       "\"", "u", "t", "f", "-", "8", "\"", CR, LF, CR, LF >>

PartHeaderText ==
    << "C", "o", "n", "t", "e", "n", "t", "-", "T", "y", "p", "e", ":", " ",
       "t", "e", "x", "t", "/", "p", "l", "a", "i", "n", ";", " ", "c", "h",
       "a", "r", "s", "e", "t", "=", "\"", "u", "t", "f", "-", "8", "\"", CR,
       LF, "C", "o", "n", "t", "e", "n", "t", "-", "T", "r", "a", "n", "s",
       "f", "e", "r", "-", "E", "n", "c", "o", "d", "i", "n", "g", ":", " ",
       "b", "a", "s", "e", "6", "4", CR, LF, "C", "o", "n", "t", "e", "n",
       "t", "-", "D", "i", "s", "p", "o", "s", "i", "t", "i", "o", "n", ":",
       " ", "a", "t", "t", "a", "c", "h", "m", "e", "n", "t", ";", " ", "f",
       "i", "l", "e", "n", "a", "m", "e", "=" >>

PartIdText ==
    << CR, LF, "C", "o", "n", "t", "e", "n", "t", "-", "I", "D", ":", " ",
       "<" >>

PartEndText ==
    << ">", CR, LF, CR, LF >>

FromText ==
    << "F", "r", "o", "m", ":", " " >>

ToText ==
    << CR, LF, "T", "o", ":", " " >>

SubjectText ==
    << CR, LF, "S", "u", "b", "j", "e", "c", "t", ":", " " >>

EndLineText ==
    << CR, LF >>

\* The places where the text pat occurs in out.
Positions(out, pat) ==
    {i \in 1..(Len(out) - Len(pat) + 1) : SubSeq(out, i, i + Len(pat) - 1) = pat}

\* The k-th smallest element of a set of numbers.
Nth(S, k) == CHOOSE p \in S : Cardinality({q \in S : q < p}) = k - 1

EndsWith(out, text) ==
    Len(out) >= Len(text) /\ SubSeq(out, Len(out) - Len(text) + 1, Len(out)) = text

\* The recipients, each but the first preceded by a semicolon.
RECURSIVE Recipients(_)
Recipients(to) ==
    IF to = << >> THEN << >>
    ELSE IF Len(to) = 1 THEN to[1]
    ELSE Recipients(SubSeq(to, 1, Len(to) - 1)) \o << ";" >> \o to[Len(to)]

\* The content of the k-th part after the body part: from the end of its
\* delimiter to the next delimiter, or to the closing delimiter.
AttachmentPart(out, k) ==
    LET starts == Positions(out, PartDelimiterText)
        first == Nth(starts, k + 1) + Len(PartDelimiterText)
        last == IF k + 1 < Cardinality(starts)
                THEN Nth(starts, k + 2) - 1
                ELSE Len(out) - Len(ClosingText)
    IN  SubSeq(out, first, last)

\* The headers of an attachment part with the filename name.
AttachmentHeaders(name) == PartHeaderText \o name \o PartIdText \o name \o PartEndText

\* Padded standard base64: groups of four characters of the alphabet, the
\* last group ending in at most two padding characters.
IsStdBase64(text) ==
    /\ Len(text) % 4 = 0
    /\ \A i \in DOMAIN text :
          \/ \E k \in DOMAIN StdEncoding : StdEncoding[k] = text[i]
          \/ text[i] = Pad /\ i >= Len(text) - 1 /\ (i = Len(text) - 1 => text[Len(text)] = Pad)

\* The six bits a character of the alphabet stands for.
Value(c) == IF c = Pad THEN 0 ELSE (CHOOSE k \in DOMAIN StdEncoding : StdEncoding[k] = c) - 1

\* The bytes a padded standard base64 text stands for.
RECURSIVE Decode(_)
Decode(text) ==
    IF text = << >> THEN << >>
    ELSE LET pad == Cardinality({k \in 3..4 : text[k] = Pad})
             n == Value(text[1]) * 262144 + Value(text[2]) * 4096
                  + Value(text[3]) * 64 + Value(text[4])
             bytes == << n \div 65536, (n \div 256) % 256, n % 256 >>
         IN  SubSeq(bytes, 1, 3 - pad) \o Decode(SubSeq(text, 5, Len(text)))

\* Two Build calls on Emails constructed from the same arguments that
\* received the same Attach calls in the same order.
SameConstruction(r, q) ==
    /\ r.of.to = q.of.to
    /\ r.of.from = q.of.from
    /\ r.of.subject = q.of.subject
    /\ r.of.body = q.of.body
    /\ r.calls = q.calls

(***************************************************************************)
(* C12: Build is deterministic and read-only: Build calls on Emails of the *)
(* same construction (the same Email again, or its twin) return the same   *)
(* bytes, the boundary token in them is mail-boundary, and a Build call    *)
(* leaves the fields and the attachment list of its Email as they were.    *)
(***************************************************************************)
C12_BuildDeterministic ==
    /\ \A i, j \in DOMAIN built :
          SameConstruction(built[i], built[j]) => built[i].out = built[j].out
    /\ \A i \in DOMAIN built :
          /\ built[i].after = built[i].of
          /\ EndsWith(built[i].out, ClosingText)
          /\ Cardinality(Positions(built[i].out, PartDelimiterText))
                = Len(built[i].calls) + 1

\* e and its twin, both with two attachments, were built one after the other.
C12_Witness ==
    /\ Len(built) = 2
    /\ built[1].who # built[2].who
    /\ SameConstruction(built[1], built[2])
    /\ Len(built[1].calls) = 2

(***************************************************************************)
(* C13: after N Attach calls Build emits exactly N attachment parts after  *)
(* the body part; the i-th part carries the filename of the i-th Attach    *)
(* call in Content-Disposition and Content-ID and the padded standard      *)
(* base64 text of that call's bytes, which decodes to those bytes.  Equal  *)
(* filenames are kept apart.                                               *)
(***************************************************************************)
C13_AttachmentParts ==
    \A i \in DOMAIN built :
        LET r == built[i]
            n == Len(r.calls)
        IN  /\ Cardinality(Positions(r.out, PartDelimiterText)) = n + 1
            /\ \A k \in 1..n :
                  LET part == AttachmentPart(r.out, k)
                      head == AttachmentHeaders(r.calls[k].name)
                      payload == SubSeq(part, Len(head) + 1, Len(part))
                  IN  /\ Len(part) >= Len(head)
                      /\ SubSeq(part, 1, Len(head)) = head
                      /\ IsStdBase64(payload)
                      /\ Len(payload) = EncodedLen(Len(r.calls[k].data))
                      /\ Decode(payload) = r.calls[k].data

\* A Build after two Attach calls with the same filename and different data.
C13_Witness ==
    /\ built # << >>
    /\ LET r == built[Len(built)]
       IN  /\ Len(r.calls) = 2
           /\ r.calls[1].name = r.calls[2].name
           /\ r.calls[1].data # r.calls[2].data
           /\ r.calls[2].data # << >>

(***************************************************************************)
(* C14: Build on an Email without attachments returns exactly the lines    *)
(* From, To (the recipients joined with ';'), Subject, MIME-Version and    *)
(* Content-Type: multipart/mixed, one opening delimiter, the text/plain    *)
(* part with the body verbatim, and the closing delimiter as the last      *)
(* bytes, with no CRLF after it and no attachment part.                    *)
(***************************************************************************)
PlainMessage(e) ==
    FromText \o e.from \o ToText \o Recipients(e.to) \o SubjectText \o e.subject
    \o EndLineText \o FixedHeaderText \o e.body \o ClosingText

C14_NoAttachments ==
    \A i \in DOMAIN built :
        built[i].calls = << >>
            => /\ built[i].out = PlainMessage(built[i].of)
               /\ built[i].out[Len(built[i].out)] = "-"
               /\ Positions(built[i].out, PartHeaderText) = {}

\* A Build of an Email with two recipients, a body and no attachment.
C14_Witness ==
    /\ built # << >>
    /\ built[Len(built)].calls = << >>
    /\ Len(built[Len(built)].of.to) = 2
    /\ built[Len(built)].of.body # << >>

(***************************************************************************)
(* C15: every line feed Build writes itself (header block, delimiters,     *)
(* part headers, for any number of attachments) directly follows a         *)
(* carriage return Build wrote itself; only a line feed copied from a      *)
(* field of the Email can stand alone.                                     *)
(***************************************************************************)
C15_OwnSeparatorsAreCRLF ==
    \A i \in DOMAIN built :
        LET r == built[i]
        IN  \A k \in DOMAIN r.out :
                (r.out[k] = LF /\ r.own[k])
                    => (k > 1 /\ r.out[k - 1] = CR /\ r.own[k - 1])

\* A Build with attachments of an Email whose body holds a bare line feed.
C15_Witness ==
    /\ built # << >>
    /\ LET r == built[Len(built)]
       IN  /\ Len(r.calls) = 2
           /\ \E k \in DOMAIN r.out : r.out[k] = LF /\ ~r.own[k] /\ r.out[k - 1] # CR

(***************************************************************************)
(* C21: the addresses are validated before the handle is looked at: a Send *)
(* with a sender or a recipient that contains CR or LF, on a Client that   *)
(* holds no handle, returns ErrFoundCRLF and not ErrClientNotInitialized;  *)
(* ErrClientNotInitialized is returned only by a Send whose addresses are  *)
(* all valid.                                                              *)
(***************************************************************************)
C21_ValidationFirst ==
    /\ (call.op = "Send" /\ call.before = 0 /\ ~ValidAddresses(call))
          => (call.err = ErrFoundCRLF /\ call.err # ErrClientNotInitialized)
    /\ call.err = ErrClientNotInitialized
          => (call.op = "Send" /\ call.before = 0 /\ ValidAddresses(call))

\* A Send without a handle whose sender is valid and whose only recipient
\* is not.
C21_Witness ==
    /\ call.op = "Send"
    /\ call.before = 0
    /\ sessions = << >>
    /\ ~HasCRLF(call.from)
    /\ Len(call.to) = 1
    /\ HasCRLF(call.to[1])
    /\ call.err = ErrFoundCRLF

(***************************************************************************)
(* Clients constructed from any login and password, the empty ones         *)
(* included, and their Connect, EnsureConnected and Close calls.           *)
(***************************************************************************)
Credentials == [Login : {"", "user"}, Password : {"", "secret"}]

InitCredentials ==
    /\ opts \in Credentials
    /\ client = NewClientHandle
    /\ auth = NewClientAuth
    /\ sessions = << >>
    /\ wire = << >>
    /\ call = NoCall
    /\ prev = "none"
    /\ threads = [t \in Threads |-> Idle]
    /\ stored = << >>
    /\ emails = NoEmails
    /\ attached = NoCalls
    /\ built = << >>

NextCredentials == DoConnect \/ DoEnsureConnected \/ DoClose

SpecCredentials == InitCredentials /\ [][NextCredentials]_vars

(***************************************************************************)
(* C22: every Client NewClient returns has an authentication strategy,     *)
(* whatever login and password it was given; constructing it issues no     *)
(* step and stores no handle; a Connect to a server that does not          *)
(* advertise AUTH returns ErrUnsupportedAuthExt, and no Connect returns    *)
(* nil without an authentication exchange that succeeded.                  *)
(***************************************************************************)
C22_AlwaysAuthenticates ==
    LET cp == ConnectPart(wire)
    IN  /\ auth
        /\ call.op = "NewClient" => (client = 0 /\ wire = << >> /\ sessions = << >>)
        /\ (\E i \in DOMAIN cp : cp[i].cmd = "EXT_AUTH" /\ ~cp[i].ok)
              => call.err = ErrUnsupportedAuthExt
        /\ (Has(cp, "DIAL") /\ call.err = Nil)
              => /\ cp[Len(cp)].cmd = "AUTH"
                 /\ cp[Len(cp)].ok
                 /\ cp[Len(cp) - 1].cmd = "EXT_AUTH"
                 /\ cp[Len(cp) - 1].ok
                 /\ sessions[client].authed

\* A Client with an empty login and an empty password whose Connect found
\* no AUTH extension.
C22_Witness ==
    /\ opts.Login = ""
    /\ opts.Password = ""
    /\ call.op = "Connect"
    /\ wire[Len(wire)].cmd = "EXT_AUTH"
    /\ ~wire[Len(wire)].ok
    /\ call.err = ErrUnsupportedAuthExt

====
